---- MODULE Spec2Model ----
(***************************************************************************)
(* A model of the integer pipeline of main.go: the RingBuffer, the two     *)
(* filter stages, the buffering stage, the console source and main with    *)
(* its interrupt handling.  Channels are unbuffered, so a send and the     *)
(* matching receive are one joint step of the two goroutines.              *)
(***************************************************************************)
EXTENDS Integers, Sequences, FiniteSets, TLC

VARIABLES
    rb,         \* the RingBuffer: [data, head, tail, size]
    log,        \* RingBuffer harness: values pushed since creation / the last Flush
    flog,       \* RingBuffer harness: value of log when the last Flush was called
    res,        \* RingBuffer harness: what the last Flush returned
    op,         \* RingBuffer harness: <<previous call, last call>>
    stdin,      \* the integers the scanner will parse, in order
    si,         \* index in stdin of the next integer the source sends
    closes,     \* per channel: how many times close() was called on it
    pc,         \* pc[1], pc[2]: the filters; pc[3]: bufferAndSend
    val,        \* val[1], val[2]: the value a filter is blocked sending
    pend,       \* bufferAndSend: the flushed values it still has to send
    tick,       \* a tick is waiting in ticker.C (capacity 1)
    nticks,     \* ticks the ticker has fired
    interrupt,  \* a signal is waiting in the interrupt channel (capacity 1)
    mainpc,     \* main: "loop", "sending", "returning", "returned", "exited"
    nhandled,   \* times main ran its interrupt case
    delivered,  \* the values main received from pipelineOut, in order
    atCancel,   \* the values the buffer held when main took the interrupt case
    mu,         \* RingBuffer.mu: "none", or the task holding it ("P", "F")
    tk          \* two tasks calling Push and Flush concurrently: pcs and locals

rbvars == <<rb, log, flog, res, op>>
pipevars == <<stdin, si, closes, pc, val, pend, tick, nticks, interrupt,
              mainpc, nhandled, delivered, atCancel>>
muvars == <<mu, tk>>
vars == <<rb, log, flog, res, op, stdin, si, closes, pc, val, pend, tick,
          nticks, interrupt, mainpc, nhandled, delivered, atCancel, mu, tk>>

----------------------------------------------------------------------------
(* Bounds of the model and constants of the program. *)

defaultBufferSize == 5
MaxCap == 3
MaxPushes == 4
MaxInput == 2
MaxTicks == 2

PushVals == {3, 6, 9}
Values == {-3, 0, 3, 6}
Example1 == <<-2, 3, 4, 9, 0, 6>>
AlmostFull == <<3, 6, 9, 12>>
Overflow == <<3, 6, 9, 12, 15>>

RECURSIVE SeqsUpTo(_, _)
SeqsUpTo(S, n) ==
    IF n = 0 THEN {<<>>}
    ELSE LET shorter == SeqsUpTo(S, n - 1)
         IN  shorter \cup {Append(s, v) : s \in shorter, v \in S}

Inputs == SeqsUpTo(Values, MaxInput) \cup {Example1, AlmostFull, Overflow}

----------------------------------------------------------------------------
(* RingBuffer *)

NewRingBuffer(size) ==
    [data |-> [i \in 0..(size - 1) |-> 0], head |-> 0, tail |-> 0, size |-> size]

NextIndexNoWrap(i, size) == i + 1

NextIndex(i, size) == (i + 1) % size

Push(b, v) ==
    LET t == NextIndex(b.tail, b.size)
    IN  [b EXCEPT !.data = [b.data EXCEPT ![b.tail] = v],
                  !.tail = t,
                  !.head = IF t = b.head THEN NextIndex(b.head, b.size)
                           ELSE b.head]

RECURSIVE FlushLoopReadsAfterAdvance(_, _)
FlushLoopReadsAfterAdvance(b, data) ==
    IF b.head # b.tail
    THEN FlushLoopReadsAfterAdvance(
             [b EXCEPT !.head = NextIndex(b.head, b.size)],
             Append(data, b.data[NextIndex(b.head, b.size)]))
    ELSE <<b, data>>

RECURSIVE FlushLoopPrepends(_, _)
FlushLoopPrepends(b, data) ==
    IF b.head # b.tail
    THEN FlushLoopPrepends([b EXCEPT !.head = NextIndex(b.head, b.size)],
                           <<b.data[b.head]>> \o data)
    ELSE <<b, data>>

\* The loop of Flush: <<the buffer afterwards, the values collected>>.
RECURSIVE FlushLoop(_, _)
FlushLoop(b, data) ==
    IF b.head # b.tail
    THEN FlushLoop([b EXCEPT !.head = NextIndex(b.head, b.size)],
                   Append(data, b.data[b.head]))
    ELSE <<b, data>>

FlushKeepHead(b) == <<b, FlushLoop(b, <<>>)[2]>>

Flush(b) == IF b.head = b.tail THEN <<b, <<>>>> ELSE FlushLoop(b, <<>>)

\* The values a Flush would return now.
Live(b) == Flush(b)[2]

----------------------------------------------------------------------------
(* The RingBuffer on its own: any capacity, any sequence of Push and Flush. *)

InitPipeIdle ==
    /\ stdin = <<>>
    /\ si = 1
    /\ closes = [c \in {"input", "stage1Out", "stage2Out", "pipelineOut", "done"} |-> 0]
    /\ pc = [s \in 1..3 |-> "select"]
    /\ val = [s \in 1..2 |-> 0]
    /\ pend = <<>>
    /\ tick = FALSE
    /\ nticks = 0
    /\ interrupt = FALSE
    /\ mainpc = "loop"
    /\ nhandled = 0
    /\ delivered = <<>>
    /\ atCancel = <<>>

\* No task is inside Push or Flush.
TasksIdle ==
    /\ mu = "none"
    /\ tk = [ppc |-> "idle", pv |-> 0, psnap |-> <<>>,
             fpc |-> "idle", fdata |-> <<>>, fsnap |-> <<>>]

InitRB ==
    /\ \E c \in 1..MaxCap : rb = NewRingBuffer(c)
    /\ log = <<>>
    /\ flog = <<>>
    /\ res = <<>>
    /\ op = <<"none", "new">>
    /\ InitPipeIdle
    /\ TasksIdle

RBPush ==
    /\ Len(log) < MaxPushes
    /\ \E v \in PushVals :
        /\ rb' = Push(rb, v)
        /\ log' = Append(log, v)
    /\ op' = <<op[2], "push">>
    /\ UNCHANGED <<flog, res>>
    /\ UNCHANGED pipevars
    /\ UNCHANGED muvars

RBFlush ==
    /\ rb' = Flush(rb)[1]
    /\ res' = Flush(rb)[2]
    /\ flog' = log
    /\ log' = <<>>
    /\ op' = <<op[2], "flush">>
    /\ UNCHANGED pipevars
    /\ UNCHANGED muvars

NextRB == RBPush \/ RBFlush

SpecRB == InitRB /\ [][NextRB]_vars

----------------------------------------------------------------------------
(* The RingBuffer shared by two tasks: P calls Push and F calls Flush, over  *)
(* and over, each statement of the two methods a step of its own.  psnap    *)
(* and fsnap record the buffer at the moment the task got the mutex.        *)

MuAlwaysFree == TRUE

\* rb.mu.Lock() can return.
MuFree == mu = "none"

InitMu == InitRB

PCall ==
    /\ tk.ppc = "idle"
    /\ \E v \in PushVals : tk' = [tk EXCEPT !.ppc = "lock", !.pv = v]
    /\ UNCHANGED <<mu, rbvars, pipevars>>

PLock ==
    /\ tk.ppc = "lock"
    /\ MuFree
    /\ mu' = "P"
    /\ tk' = [tk EXCEPT !.ppc = "write", !.psnap = rb]
    /\ UNCHANGED <<rbvars, pipevars>>

\* rb.data[rb.tail] = val
PWrite ==
    /\ tk.ppc = "write"
    /\ rb' = [rb EXCEPT !.data = [rb.data EXCEPT ![rb.tail] = tk.pv]]
    /\ tk' = [tk EXCEPT !.ppc = "tail"]
    /\ UNCHANGED <<mu, log, flog, res, op, pipevars>>

\* rb.tail = (rb.tail + 1) % rb.size
PTail ==
    /\ tk.ppc = "tail"
    /\ rb' = [rb EXCEPT !.tail = NextIndex(rb.tail, rb.size)]
    /\ tk' = [tk EXCEPT !.ppc = "check"]
    /\ UNCHANGED <<mu, log, flog, res, op, pipevars>>

\* if rb.tail == rb.head { rb.head = (rb.head + 1) % rb.size }
PCheck ==
    /\ tk.ppc = "check"
    /\ rb' = IF rb.tail = rb.head
             THEN [rb EXCEPT !.head = NextIndex(rb.head, rb.size)]
             ELSE rb
    /\ tk' = [tk EXCEPT !.ppc = "unlock"]
    /\ UNCHANGED <<mu, log, flog, res, op, pipevars>>

PUnlock ==
    /\ tk.ppc = "unlock"
    /\ mu' = "none"
    /\ tk' = [tk EXCEPT !.ppc = "idle", !.pv = 0, !.psnap = <<>>]
    /\ UNCHANGED <<rbvars, pipevars>>

FCall ==
    /\ tk.fpc = "idle"
    /\ tk' = [tk EXCEPT !.fpc = "lock"]
    /\ UNCHANGED <<mu, rbvars, pipevars>>

FLock ==
    /\ tk.fpc = "lock"
    /\ MuFree
    /\ mu' = "F"
    /\ tk' = [tk EXCEPT !.fpc = "check", !.fsnap = rb, !.fdata = <<>>]
    /\ UNCHANGED <<rbvars, pipevars>>

\* if rb.head == rb.tail { return nil }
FCheck ==
    /\ tk.fpc = "check"
    /\ tk' = [tk EXCEPT !.fpc = IF rb.head = rb.tail THEN "unlock" ELSE "loop"]
    /\ UNCHANGED <<mu, rbvars, pipevars>>

\* One test of the loop condition and, if it holds, one iteration.
FLoop ==
    /\ tk.fpc = "loop"
    /\ IF rb.head # rb.tail
       THEN /\ tk' = [tk EXCEPT !.fdata = Append(tk.fdata, rb.data[rb.head])]
            /\ rb' = [rb EXCEPT !.head = NextIndex(rb.head, rb.size)]
       ELSE /\ tk' = [tk EXCEPT !.fpc = "unlock"]
            /\ UNCHANGED rb
    /\ UNCHANGED <<mu, log, flog, res, op, pipevars>>

FUnlock ==
    /\ tk.fpc = "unlock"
    /\ mu' = "none"
    /\ tk' = [tk EXCEPT !.fpc = "idle", !.fdata = <<>>, !.fsnap = <<>>]
    /\ UNCHANGED <<rbvars, pipevars>>

NextMu ==
    \/ PCall \/ PLock \/ PWrite \/ PTail \/ PCheck \/ PUnlock
    \/ FCall \/ FLock \/ FCheck \/ FLoop \/ FUnlock

SpecMu == InitMu /\ [][NextMu]_vars

----------------------------------------------------------------------------
(* The pipeline: source -> filterNegative -> filterNotDivisibleBy3 ->       *)
(* bufferAndSend -> main.                                                   *)

Chans == {"input", "stage1Out", "stage2Out", "pipelineOut", "done"}

Closed(c) == closes[c] > 0

Close(c) == [closes EXCEPT ![c] = @ + 1]

\* Go's remainder truncates towards zero.
GoRem(a, b) == IF a >= 0 THEN a % b ELSE -((-a) % b)

KeepsEverything(n) == TRUE

FilterNegativeKeeps(n) == n >= 0

FilterNotDivisibleBy3Keeps(n) == n # 0 /\ GoRem(n, 3) = 0

Keeps(s, n) == IF s = 1 THEN FilterNegativeKeeps(n) ELSE FilterNotDivisibleBy3Keeps(n)

OutOfNext(s) == IF s = 1 THEN "stage2Out" ELSE "pipelineOut"

OutOf(s) == IF s = 1 THEN "stage1Out" ELSE IF s = 2 THEN "stage2Out" ELSE "pipelineOut"

\* The process runs until main has returned and the runtime has exited.
Alive == mainpc # "exited"

\* A receive from done can complete: main is blocked in `done <- true`, or
\* done is closed.
DoneReady == mainpc = "sending" \/ Closed("done")

\* main once a stage has taken its `done <- true`.
MainKeepsLooping == "loop"

MainAfterDoneSent == "returning"

MainAfterDoneTaken == IF mainpc = "sending" THEN MainAfterDoneSent ELSE mainpc

Init ==
    /\ stdin \in Inputs
    /\ si = 1
    /\ closes = [c \in Chans |-> 0]
    /\ pc = [s \in 1..3 |-> "select"]
    /\ val = [s \in 1..2 |-> 0]
    /\ pend = <<>>
    /\ rb = NewRingBuffer(defaultBufferSize)
    /\ tick = FALSE
    /\ nticks = 0
    /\ interrupt = FALSE
    /\ mainpc = "loop"
    /\ nhandled = 0
    /\ delivered = <<>>
    /\ atCancel = <<>>
    /\ log = <<>>
    /\ flog = <<>>
    /\ res = <<>>
    /\ op = <<"none", "new">>
    /\ TasksIdle

S1RecvWhileSending ==
    /\ Alive
    /\ pc[1] \in {"select", "send"}
    /\ ~Closed("input")
    /\ si <= Len(stdin)
    /\ si' = si + 1
    /\ LET n == stdin[si]
       IN  IF Keeps(1, n)
           THEN pc' = [pc EXCEPT ![1] = "send"] /\ val' = [val EXCEPT ![1] = n]
           ELSE UNCHANGED <<pc, val>>
    /\ UNCHANGED muvars
    /\ UNCHANGED <<rbvars, stdin, closes, pend, tick, nticks, interrupt,
                   mainpc, nhandled, delivered, atCancel>>

\* The source sends the next parsed integer and filterNegative takes it.
S1Recv ==
    /\ Alive
    /\ pc[1] = "select"
    /\ ~Closed("input")
    /\ si <= Len(stdin)
    /\ si' = si + 1
    /\ LET n == stdin[si]
       IN  IF Keeps(1, n)
           THEN pc' = [pc EXCEPT ![1] = "send"] /\ val' = [val EXCEPT ![1] = n]
           ELSE UNCHANGED <<pc, val>>
    /\ UNCHANGED muvars
    /\ UNCHANGED <<rbvars, stdin, closes, pend, tick, nticks, interrupt,
                   mainpc, nhandled, delivered, atCancel>>

\* The scanner reaches end of input: the source goroutine closes input.
SrcClose ==
    /\ Alive
    /\ si > Len(stdin)
    /\ ~Closed("input")
    /\ closes' = Close("input")
    /\ UNCHANGED muvars
    /\ UNCHANGED <<rbvars, stdin, si, pc, val, pend, tick, nticks, interrupt,
                   mainpc, nhandled, delivered, atCancel>>

\* filterNegative receives from the closed input: the zero value.
S1RecvClosed ==
    /\ Alive
    /\ pc[1] = "select"
    /\ Closed("input")
    /\ IF Keeps(1, 0)
       THEN pc' = [pc EXCEPT ![1] = "send"] /\ val' = [val EXCEPT ![1] = 0]
       ELSE UNCHANGED <<pc, val>>
    /\ UNCHANGED muvars
    /\ UNCHANGED <<rbvars, stdin, si, closes, pend, tick, nticks, interrupt,
                   mainpc, nhandled, delivered, atCancel>>

\* filterNegative's `out <- n` meets filterNotDivisibleBy3's `n := <-in`.
S2Recv ==
    /\ Alive
    /\ pc[1] = "send"
    /\ pc[2] = "select"
    /\ LET n == val[1]
       IN  IF Keeps(2, n)
           THEN /\ pc' = [pc EXCEPT ![1] = "select", ![2] = "send"]
                /\ val' = [val EXCEPT ![1] = 0, ![2] = n]
           ELSE /\ pc' = [pc EXCEPT ![1] = "select"]
                /\ val' = [val EXCEPT ![1] = 0]
    /\ UNCHANGED muvars
    /\ UNCHANGED <<rbvars, stdin, si, closes, pend, tick, nticks, interrupt,
                   mainpc, nhandled, delivered, atCancel>>

\* filterNotDivisibleBy3 receives from the closed stage1Out: the zero value.
S2RecvClosed ==
    /\ Alive
    /\ pc[2] = "select"
    /\ Closed("stage1Out")
    /\ IF Keeps(2, 0)
       THEN pc' = [pc EXCEPT ![2] = "send"] /\ val' = [val EXCEPT ![2] = 0]
       ELSE UNCHANGED <<pc, val>>
    /\ UNCHANGED muvars
    /\ UNCHANGED <<rbvars, stdin, si, closes, pend, tick, nticks, interrupt,
                   mainpc, nhandled, delivered, atCancel>>

\* A filter takes the done case: it returns and its deferred close(out) runs.
FilterDone(s) ==
    /\ Alive
    /\ pc[s] = "select"
    /\ DoneReady
    /\ pc' = [pc EXCEPT ![s] = "done"]
    /\ closes' = Close(OutOf(s))
    /\ mainpc' = MainAfterDoneTaken
    /\ UNCHANGED muvars
    /\ UNCHANGED <<rbvars, stdin, si, val, pend, tick, nticks, interrupt,
                   nhandled, delivered, atCancel>>

\* filterNotDivisibleBy3's `out <- n` meets bufferAndSend's `n := <-in`.
S3Recv ==
    /\ Alive
    /\ pc[2] = "send"
    /\ pc[3] = "select"
    /\ rb' = Push(rb, val[2])
    /\ pc' = [pc EXCEPT ![2] = "select"]
    /\ val' = [val EXCEPT ![2] = 0]
    /\ UNCHANGED muvars
    /\ UNCHANGED <<log, flog, res, op, stdin, si, closes, pend, tick, nticks,
                   interrupt, mainpc, nhandled, delivered, atCancel>>

\* bufferAndSend receives from the closed stage2Out: it pushes the zero value.
S3RecvClosed ==
    /\ Alive
    /\ pc[3] = "select"
    /\ Closed("stage2Out")
    /\ rb' = Push(rb, 0)
    /\ UNCHANGED muvars
    /\ UNCHANGED <<log, flog, res, op, stdin, si, closes, pc, val, pend, tick,
                   nticks, interrupt, mainpc, nhandled, delivered, atCancel>>

S3TickNoFlush ==
    /\ Alive
    /\ pc[3] = "select"
    /\ tick
    /\ tick' = FALSE
    /\ UNCHANGED muvars
    /\ UNCHANGED <<rbvars, stdin, si, closes, pc, val, pend, nticks,
                   interrupt, mainpc, nhandled, delivered, atCancel>>

\* bufferAndSend takes a tick: it flushes and starts sending what it got.
S3Tick ==
    /\ Alive
    /\ pc[3] = "select"
    /\ tick
    /\ tick' = FALSE
    /\ rb' = Flush(rb)[1]
    /\ pend' = Flush(rb)[2]
    /\ pc' = [pc EXCEPT ![3] = IF Flush(rb)[2] = <<>> THEN "select" ELSE "send"]
    /\ UNCHANGED muvars
    /\ UNCHANGED <<log, flog, res, op, stdin, si, closes, val, nticks,
                   interrupt, mainpc, nhandled, delivered, atCancel>>

\* bufferAndSend takes the done case: the final flush; with nothing to send
\* it returns at once, and close(out) and ticker.Stop() run.
S3Done ==
    /\ Alive
    /\ pc[3] = "select"
    /\ DoneReady
    /\ rb' = Flush(rb)[1]
    /\ pend' = Flush(rb)[2]
    /\ IF Flush(rb)[2] = <<>>
       THEN pc' = [pc EXCEPT ![3] = "done"] /\ closes' = Close("pipelineOut")
       ELSE pc' = [pc EXCEPT ![3] = "drain"] /\ UNCHANGED closes
    /\ mainpc' = MainAfterDoneTaken
    /\ UNCHANGED muvars
    /\ UNCHANGED <<log, flog, res, op, stdin, si, val, tick, nticks, interrupt,
                   nhandled, delivered, atCancel>>

\* bufferAndSend's `out <- n` meets main's `num := <-pipelineOut`.  (main
\* never reads a closed pipelineOut: bufferAndSend returns only after main
\* has left its loop.)
MainRecv ==
    /\ Alive
    /\ mainpc = "loop"
    /\ pc[3] \in {"send", "drain"}
    /\ delivered' = Append(delivered, Head(pend))
    /\ pend' = Tail(pend)
    /\ IF Tail(pend) # <<>>
       THEN UNCHANGED <<pc, closes>>
       ELSE IF pc[3] = "send"
            THEN pc' = [pc EXCEPT ![3] = "select"] /\ UNCHANGED closes
            ELSE pc' = [pc EXCEPT ![3] = "done"] /\ closes' = Close("pipelineOut")
    /\ UNCHANGED muvars
    /\ UNCHANGED <<rbvars, stdin, si, val, tick, nticks, interrupt, mainpc,
                   nhandled, atCancel>>

\* main takes the interrupt case and blocks in `done <- true`.
MainInterrupt ==
    /\ Alive
    /\ mainpc = "loop"
    /\ interrupt
    /\ interrupt' = FALSE
    /\ mainpc' = "sending"
    /\ nhandled' = nhandled + 1
    /\ atCancel' = Live(rb)
    /\ UNCHANGED muvars
    /\ UNCHANGED <<rbvars, stdin, si, closes, pc, val, pend, tick, nticks,
                   delivered>>

\* main returns: its deferred close(done) runs.
MainReturn ==
    /\ mainpc = "returning"
    /\ closes' = Close("done")
    /\ mainpc' = "returned"
    /\ UNCHANGED muvars
    /\ UNCHANGED <<rbvars, stdin, si, pc, val, pend, tick, nticks, interrupt,
                   nhandled, delivered, atCancel>>

\* The runtime exits the process once main has returned: every goroutine stops.
Exit ==
    /\ mainpc = "returned"
    /\ mainpc' = "exited"
    /\ UNCHANGED muvars
    /\ UNCHANGED <<rbvars, stdin, si, closes, pc, val, pend, tick, nticks,
                   interrupt, nhandled, delivered, atCancel>>

\* The ticker fires; ticker.C holds one tick, a second one is dropped.
Tick ==
    /\ Alive
    /\ pc[3] # "done"
    /\ nticks < MaxTicks
    /\ nticks' = nticks + 1
    /\ tick' = TRUE
    /\ UNCHANGED muvars
    /\ UNCHANGED <<rbvars, stdin, si, closes, pc, val, pend, interrupt, mainpc,
                   nhandled, delivered, atCancel>>

\* The OS delivers SIGINT or SIGTERM, any number of times; the interrupt
\* channel holds one signal, and a signal that finds it full is dropped.
Signal ==
    /\ Alive
    /\ interrupt' = TRUE
    /\ UNCHANGED muvars
    /\ UNCHANGED <<rbvars, stdin, si, closes, pc, val, pend, tick, nticks,
                   mainpc, nhandled, delivered, atCancel>>

Filter1Done == FilterDone(1)

Filter2Done == FilterDone(2)

Next ==
    \/ S1Recv
    \/ SrcClose
    \/ S1RecvClosed
    \/ S2Recv
    \/ S2RecvClosed
    \/ Filter1Done
    \/ Filter2Done
    \/ S3Recv
    \/ S3RecvClosed
    \/ S3Tick
    \/ S3Done
    \/ MainRecv
    \/ MainInterrupt
    \/ MainReturn
    \/ Exit
    \/ Tick
    \/ Signal

Spec == Init /\ [][Next]_vars

----------------------------------------------------------------------------
(* The pipeline while no signal arrives, with a ticker that never stops     *)
(* and the scheduling Go gives: a goroutine that can run does run, and a    *)
(* select that is entered again and again with a case ready takes it.       *)

\* The ticker fires, for ever; ticker.C holds one tick.
TickForever ==
    /\ Alive
    /\ pc[3] # "done"
    /\ tick' = TRUE
    /\ UNCHANGED muvars
    /\ UNCHANGED <<rbvars, stdin, si, closes, pc, val, pend, nticks,
                   interrupt, mainpc, nhandled, delivered, atCancel>>

NextLive ==
    \/ S1Recv
    \/ SrcClose
    \/ S1RecvClosed
    \/ S2Recv
    \/ S3Recv
    \/ S3Tick
    \/ MainRecv
    \/ TickForever

LiveFairness ==
    /\ WF_vars(S1Recv)
    /\ WF_vars(S1RecvClosed)
    /\ WF_vars(S2Recv)
    /\ SF_vars(S3Recv)
    /\ SF_vars(S3Tick)
    /\ WF_vars(MainRecv)
    /\ WF_vars(TickForever)

LiveSpec == Init /\ [][NextLive]_vars /\ LiveFairness

----------------------------------------------------------------------------
(* Properties of the RingBuffer, checked under SpecRB. *)

LastN(s, n) == SubSeq(s, Len(s) - n + 1, Len(s))

\* C1: after C + k pushes (k >= 0) with no Flush in between, Flush returns
\* exactly the last C pushed values, oldest first.
C1_FlushReturnsLastC ==
    (op[2] = "flush" /\ Len(flog) >= rb.size) => res = LastN(flog, rb.size)

\* C9: Flush leaves the buffer empty: head = tail after every Flush, and a
\* Flush right after NewRingBuffer or after another Flush returns nothing.
C9_FlushLeavesEmpty ==
    /\ op[2] = "flush" => (rb.head = rb.tail /\ Live(rb) = <<>>)
    /\ (op[2] = "flush" /\ op[1] \in {"new", "flush"}) => res = <<>>

C9_Witness ==
    /\ op = <<"flush", "flush">>
    /\ rb.head # 0
    /\ res = <<>>

\* C10: the buffer never holds more than C values, head and tail stay in
\* 0..C-1, and the slot Push writes and the slots Flush reads exist.
C10_BoundedAndInRange ==
    /\ rb.size > 0
    /\ DOMAIN rb.data = 0..(rb.size - 1)
    /\ rb.head \in DOMAIN rb.data
    /\ rb.tail \in DOMAIN rb.data
    /\ Len(Live(rb)) <= rb.size

C10_Witness ==
    /\ op[2] = "push"
    /\ Len(log) > rb.size
    /\ rb.tail < rb.head

----------------------------------------------------------------------------
(* Properties of the pipeline, checked under Spec. *)

Divisible3(n) == \E k \in -10..10 : n = 3 * k

PassesBoth(n) == n >= 0 /\ n # 0 /\ Divisible3(n)

Passing(s) == SelectSeq(s, PassesBoth)

\* main's `done <- true` has been taken by some stage.
CancelSet == mainpc \in {"returning", "returned", "exited"}

\* A step of one of the three stages.
StageNext ==
    \/ S1Recv \/ S1RecvClosed \/ S2Recv \/ S2RecvClosed \/ S3Recv
    \/ S3RecvClosed \/ S3Tick \/ S3Done \/ Filter1Done \/ Filter2Done
    \/ MainRecv

\* C2: one shutdown trigger makes all three stages observe cancellation and
\* terminate; stated on the final state: when the process has exited, no
\* stage is left that has not terminated.
C2_AllStagesTerminate ==
    mainpc = "exited" => \A s \in 1..3 : pc[s] = "done"

IsSuffix(a, s) == Len(a) <= Len(s) /\ SubSeq(s, Len(s) - Len(a) + 1, Len(s)) = a

\* C3: when cancellation is triggered while the buffer holds values,
\* bufferAndSend hands each of them to the consumer, in buffer order, and
\* then closes its output; stated on the final state: the values the buffer
\* held at the trigger are the last ones the consumer received, nothing is
\* left to send and pipelineOut is closed.
C3_DrainReachesConsumer ==
    (mainpc = "exited" /\ atCancel # <<>>)
        => /\ IsSuffix(atCancel, delivered)
           /\ pend = <<>>
           /\ Closed("pipelineOut")

\* C4: after an interrupt main completes `done <- true` and returns; stated
\* on the states where main is blocked in the send: some stage can still
\* take a step (otherwise no stage ever reaches its select to take done).
C4_MainNeverStuck ==
    mainpc = "sending" => ENABLED StageNext

\* C5: once the cancellation signal is set, no stage receives another
\* upstream value or services another tick.
C5_NoServiceAfterCancel ==
    [][CancelSet => ~(S1Recv \/ S1RecvClosed \/ S2Recv \/ S2RecvClosed
                      \/ S3Recv \/ S3RecvClosed \/ S3Tick)]_vars

\* C6: shutdown is idempotent: however many signals arrive, main runs its
\* interrupt case once and never returns to its loop, no channel is closed
\* twice, and a signal that arrives after the first one was handled stays
\* in the interrupt channel unread.
C6_IdempotentShutdown ==
    /\ [](/\ nhandled <= 1
          /\ \A c \in Chans : closes[c] <= 1
          /\ nhandled = 1 => mainpc # "loop")
    /\ [][(nhandled = 1 /\ interrupt) => interrupt']_vars

C6_Witness ==
    /\ nhandled = 1
    /\ interrupt
    /\ mainpc = "exited"
    /\ Closed("done")

\* C7: filterNegative forwards a received n iff n >= 0, and
\* filterNotDivisibleBy3 forwards a received n iff n # 0 and 3 divides n;
\* a value a filter is sending always satisfies its predicate.
C7_FiltersForwardIffPredicate ==
    /\ [](/\ pc[1] = "send" => val[1] >= 0
          /\ pc[2] = "send" => (val[2] # 0 /\ Divisible3(val[2])))
    /\ [][/\ S1Recv =>
               ((stdin[si] >= 0) <=> (pc'[1] = "send" /\ val'[1] = stdin[si]))
          /\ S1RecvClosed => (pc'[1] = "send" /\ val'[1] = 0)
          /\ S2Recv =>
               ((val[1] # 0 /\ Divisible3(val[1]))
                    <=> (pc'[2] = "send" /\ val'[2] = val[1]))]_vars

C7_Witness ==
    /\ Len(stdin) = 2
    /\ stdin[1] < 0
    /\ si = 3
    /\ pc[2] = "send"
    /\ val[2] = stdin[2]

\* Exactly one tick has fired, bufferAndSend has finished the flush it
\* caused, every input value had reached the buffer before it, and no
\* shutdown has begun.
OneFlushAfterAllArrived ==
    /\ mainpc = "loop"
    /\ nticks = 1
    /\ ~tick
    /\ pc[3] = "select"
    /\ si > Len(stdin)
    /\ pc[2] = "select"
    /\ pc[1] = "send" => ~PassesBoth(val[1])
    /\ Live(rb) = <<>>

\* C8: when fewer values than the buffer capacity pass both filters and one
\* tick fires after all of them reached the buffer, the consumer receives
\* exactly the passing values, in input order.
C8_OneFlushDeliversPassing ==
    (OneFlushAfterAllArrived /\ Len(Passing(stdin)) < defaultBufferSize)
        => delivered = Passing(stdin)

C8_Witness ==
    /\ stdin = Example1
    /\ OneFlushAfterAllArrived
    /\ delivered = <<3, 9, 6>>

----------------------------------------------------------------------------
(* Further properties of the pipeline (Spec) and the RingBuffer (SpecRB). *)

\* The values the source has sent so far.
Emitted == SubSeq(stdin, 1, si - 1)

RECURSIVE IsSubseq(_, _)
IsSubseq(a, s) ==
    IF a = <<>> THEN TRUE
    ELSE IF s = <<>> THEN FALSE
    ELSE IF Head(a) = Head(s) THEN IsSubseq(Tail(a), Tail(s))
    ELSE IsSubseq(a, Tail(s))

\* C11: what the consumer has received is, in order, a subsequence of the
\* values the source has sent that pass both predicates.
C11_DeliveredInSourceOrder ==
    IsSubseq(delivered, Passing(Emitted))

C11_Witness ==
    /\ stdin = Overflow
    /\ delivered = <<6, 9, 12, 15>>

\* C12: after cancellation the outputs are closed in pipeline order:
\* stage1Out before stage2Out before pipelineOut.
C12_ClosedInPipelineOrder ==
    /\ Closed("stage2Out") => Closed("stage1Out")
    /\ Closed("pipelineOut") => Closed("stage2Out")

\* C15: what a Flush returns is a contiguous suffix, in push order, of the
\* values pushed since the previous Flush (or since creation).
C15_FlushReturnsSuffix ==
    op[2] = "flush" => IsSuffix(res, flog)

C15_Witness ==
    /\ op[2] = "flush"
    /\ Len(res) >= 2
    /\ Len(flog) > Len(res)

\* C16: no send on a closed channel: a goroutine that is sending, or may
\* still send, on a channel has not closed it, and only the channel's
\* sender closes it: input after the last integer, a stage's output when
\* the stage has returned, done after main's send was taken.
C16_NoSendOnClosed ==
    /\ Closed("input") => si > Len(stdin)
    /\ \A s \in 1..3 : Closed(OutOf(s)) <=> pc[s] = "done"
    /\ Closed("done") <=> mainpc \in {"returned", "exited"}

C16_Witness ==
    /\ \A c \in Chans : Closed(c)
    /\ delivered # <<>>

\* C17: every value in the ring buffer is a value the source sent that
\* passes both predicates; a closed upstream channel adds nothing.
C17_BufferHoldsOnlyPassing ==
    \A i \in 1..Len(Live(rb)) :
        /\ PassesBoth(Live(rb)[i])
        /\ \E j \in 1..Len(Emitted) : Emitted[j] = Live(rb)[i]

\* C18: once input is closed and filterNegative has handed on what it
\* held, it forwards nothing more while no cancellation is under way.
C18_NoForwardAfterEndOfInput ==
    [][(Closed("input") /\ nhandled = 0 /\ pc[1] = "select")
           => pc'[1] = "select"]_vars

Count(s, v) == Cardinality({i \in 1..Len(s) : s[i] = v})

\* C19: every value the consumer received is a non-zero, non-negative
\* multiple of 3 that the source sent, and no value is received more often
\* than the source sent it.
C19_DeliveredPassingAtMostOnce ==
    \A i \in 1..Len(delivered) :
        /\ PassesBoth(delivered[i])
        /\ Count(delivered, delivered[i]) <= Count(Emitted, delivered[i])

C19_Witness ==
    /\ stdin = <<3, 3>>
    /\ delivered = <<3, 3>>
    /\ nticks = 2
    /\ mainpc = "exited"

\* C14: the handoffs are rendezvous: the source's next integer is taken
\* only while filterNegative holds nothing, a filter keeps the value it is
\* sending until the next stage takes exactly that value, and a filter
\* takes a new value only while it holds none.
C14_RendezvousBackpressure ==
    [][/\ si' # si => (pc[1] = "select" /\ si' = si + 1)
       /\ \A s \in 1..2 :
            pc[s] = "send" =>
                \/ pc'[s] = "send" /\ val'[s] = val[s]
                \/ /\ pc'[s] = "select"
                   /\ pc[s + 1] = "select"
                   /\ IF s = 1
                      THEN Keeps(2, val[1])
                               => (pc'[2] = "send" /\ val'[2] = val[1])
                      ELSE rb' = Push(rb, val[2])]_vars

C14_Witness ==
    /\ pc = <<"send", "send", "send">>
    /\ si <= Len(stdin)
    /\ mainpc = "loop"

\* C13: Push and Flush exclude each other: when a Flush is about to return,
\* what it collected and the buffer it leaves are those of a Flush run alone
\* on the buffer as it was when the Flush got the mutex, and likewise for a
\* Push; so every call takes effect at one instant, whole.
C13_PushFlushAtomic ==
    /\ tk.fpc = "unlock" =>
           (tk.fdata = Flush(tk.fsnap)[2] /\ rb = Flush(tk.fsnap)[1])
    /\ tk.ppc = "unlock" => rb = Push(tk.psnap, tk.pv)
    /\ tk.fpc = "unlock" => Live(rb) = <<>>

C13_Witness ==
    /\ tk.fpc = "unlock"
    /\ Len(tk.fdata) >= 2
    /\ tk.ppc = "lock"

Last(s) == s[Len(s)]

\* Every input value has been taken by filterNegative, every one that
\* passes both predicates has gone through the buffer, and the consumer
\* has received them in order, all but those an overflow evicted: the
\* newest one always, and all of them when they are fewer than the capacity.
Settled ==
    /\ si > Len(stdin)
    /\ pc[1] = "send" => ~PassesBoth(val[1])
    /\ pc[2] = "select"
    /\ pc[3] = "select"
    /\ pend = <<>>
    /\ Live(rb) = <<>>
    /\ IsSubseq(delivered, Passing(stdin))
    /\ Passing(stdin) # <<>> =>
           (delivered # <<>> /\ Last(delivered) = Last(Passing(stdin)))
    /\ Len(Passing(stdin)) < defaultBufferSize => delivered = Passing(stdin)

\* C20: while no signal arrives the pipeline does not get stuck: under fair
\* scheduling every input value is eventually taken by filterNegative and
\* every passing value is eventually pushed and then delivered by a tick's
\* flush or evicted, and from then on nothing is left in flight.
C20_NoShutdownProgress == <>[]Settled

C20_Witness ==
    /\ Settled
    /\ stdin = Overflow
    /\ delivered = <<6, 9, 12, 15>>
    /\ Closed("input")

====
